---------------------------- MODULE Spec2Model ----------------------------
(***************************************************************************)
(* State-machine model of energia_mecanica_of_jump-jump.py: the energy     *)
(* model calcular_Energias, the precomputed trajectory, and the animation  *)
(* callback update driven by FuncAnimation.                                *)
(*                                                                         *)
(* The script computes in IEEE doubles; the model computes in fixed point  *)
(* on 32-bit integers, every product or quotient rounded down:             *)
(*   length    1e-4 m        time      1e-4 s      angle   1e-4 rad        *)
(*   velocity  1e-4 m/s      g         1e-2 m/s^2  mass    kg              *)
(*   energy    1e-6 J        k         1e-1 N/m    cosine  1e-4            *)
(* so m*g*y is exact in micro-joules and a square root followed by a       *)
(* square loses what the rounded velocity loses.                           *)
(***************************************************************************)
EXTENDS Integers, Sequences, FiniteSets, TLC

VARIABLES
    pc,                 \* "precompute" (lines 80-83), "show" (plt.show), "closed"
    velocidades,        \* list of line 76
    deformacoes,        \* list of line 77
    linha_posicao,      \* Line2D of line 92: [xdata, ydata]
    linha_velocidade,   \* Line2D of line 100
    linha_deformacao,   \* Line2D of line 108
    barras,             \* heights of the bars of line 118, <<>> before they exist
    ylims,              \* y-axis limits of the four subplots, <<>> while never set
    frame_seq,          \* position of FuncAnimation's frame iterator (0-based)
    frame,              \* argument of the last update call, -1 before the first
    yArg,               \* argument of the last calcular_Energias call
    ret                 \* its returned tuple, <<>> before the first return

vars == <<pc, velocidades, deformacoes, linha_posicao, linha_velocidade,
          linha_deformacao, barras, ylims, frame_seq, frame, yArg, ret>>

---------------------------------------------------------------------------
(* Constants of the system, lines 9-22, in the units above. *)

m == 90
g == 981
x_max == 5000
y_max == 10000
dt == 500
pi == 31416
atol == 10
FrameStep == 10

\* 1.0 in the fixed-point scale of lengths, times, angles and cosines
One == 10^4

\* positions above y_max that the inputs of calcular_Energias reach
Over == 5

\* floor(a*b/c) for a, b >= 0 and c > 0 without leaving 32 bits
MulDiv(a, b, c) == (a \div c) * b + ((a % c) * b) \div c

\* k = 2 * m * g * y_max / x_max**2, in 0.1 N/m
k_NoFactor2 == (m * g * y_max) \div ((x_max * x_max) \div 1000)
k == (2 * m * g * y_max) \div ((x_max * x_max) \div 1000)

t_total == 2 * pi

\* the value np.sqrt gives for a negative argument
NaN == 0 - 1

\* the largest r in lo..hi with r*r <= n, by bisection (a function, so that its
\* arguments are values when it is applied)
ISqrt[n \in Nat, lo \in Nat, hi \in Nat] ==
    IF lo >= hi THEN lo
    ELSE LET mid == (lo + hi + 1) \div 2
         IN  IF mid * mid <= n THEN ISqrt[n, mid, hi] ELSE ISqrt[n, lo, mid - 1]

\* np.sqrt, rounded down; NaN below zero. 46340 is the largest root of 32 bits
Sqrt(n) == IF n < 0 THEN NaN ELSE ISqrt[n, 0, 46340]

---------------------------------------------------------------------------
(* calcular_Energias, lines 27-66 *)

\* lines 40-43: the deformation, from the position as passed in
Deformacao_AfterSnap(y) ==
    LET ys == IF y <= atol /\ y >= 0 - atol THEN 0 ELSE y
    IN  IF ys < x_max THEN x_max - ys ELSE 0
Deformacao(y) == IF y < x_max THEN x_max - y ELSE 0

\* lines 46-47: np.isclose(y, 0.0, atol=1e-3) is |y - 0| <= atol + rtol*|0|
Snap(y) == IF y <= atol /\ y >= 0 - atol THEN 0 ELSE y

\* line 50
E_t == m * g * y_max

\* line 51
U_gOf(y) == m * g * y

\* line 52: 0.5 * k * x**2
U_elOf_NoHalf(x) == MulDiv(x * x, k, 1000)
U_elOf(x) == MulDiv(x * x, k, 2000)

\* lines 55-60: the branch taken for the (snapped) position
Regime_Closed(y) ==
    IF x_max <= y /\ y < y_max THEN "airborne"
    ELSE IF 0 < y /\ y < x_max THEN "contact"
    ELSE "rest"
Regime(y) ==
    IF x_max < y /\ y < y_max THEN "airborne"
    ELSE IF 0 < y /\ y < x_max THEN "contact"
    ELSE "rest"

\* lines 56 and 58: the energy left for the motion, whose root is taken
Radicand(y, x) ==
    CASE Regime(y) = "airborne" -> E_t - U_gOf(y)
      [] Regime(y) = "contact"  -> E_t - U_gOf(y) - U_elOf(x)
      [] OTHER                  -> 0

\* lines 55-60: v = sqrt(2 * E / m), v = 0 in the else branch
Velocidade(y, x) ==
    IF Regime(y) = "rest" THEN 0
    ELSE LET E == Radicand(y, x)
         IN  IF E < 0 THEN NaN ELSE Sqrt(MulDiv(2 * E, 100, m))

\* line 63: 0.5 * m * v**2
K_cOf(v) == IF v = NaN THEN NaN ELSE MulDiv(v * v, m, 200)

calcular_Energias(y0) ==
    LET x     == Deformacao(y0)
        y     == Snap(y0)
        U_g   == U_gOf(y)
        U_el  == U_elOf(x)
        v     == Velocidade(y, x)
        K_c   == K_cOf(v)
        E_mec == IF K_c = NaN THEN NaN ELSE K_c + U_g + U_el
    IN  <<E_mec, K_c, U_g, U_el, v, x>>

---------------------------------------------------------------------------
(* The trajectory, lines 72-73 *)

\* np.arange(start, stop, step): ceil((stop - start) / step) values
arange_Floor(start, stop, step) ==
    [i \in 1..((stop - start) \div step) |-> start + (i - 1) * step]
arange(start, stop, step) ==
    [i \in 1..((stop - start + step - 1) \div step) |-> start + (i - 1) * step]

\* cos on [0, pi/2] from u = t^2: the series 1 - u/2! + u^2/4! - ... + u^5/10!
\* in Horner form, each product rounded down
CosSeries(u) ==
    LET r5 == One - (u * One) \div (90 * One)
        r4 == One - (u * r5) \div (56 * One)
        r3 == One - (u * r4) \div (30 * One)
        r2 == One - (u * r3) \div (12 * One)
    IN  One - (u * r2) \div (2 * One)

\* np.cos on [0, 2*pi): cos(t) = cos(2*pi - t) = -cos(pi - t)
Cos(t) ==
    LET a == IF t > pi THEN 2 * pi - t ELSE t
    IN  IF a > pi \div 2
        THEN 0 - CosSeries(((pi - a) * (pi - a)) \div One)
        ELSE CosSeries((a * a) \div One)

tempos == arange(0, t_total, dt)

posicoes == [i \in 1..Len(tempos) |-> (y_max * (One + Cos(tempos[i]))) \div (2 * One)]

---------------------------------------------------------------------------
(* Helpers of the figure *)

Range(s) == {s[i] : i \in 1..Len(s)}

\* Python's max and min of a non-empty list
max(s) == CHOOSE a \in Range(s) : \A b \in Range(s) : b <= a
min(s) == CHOOSE a \in Range(s) : \A b \in Range(s) : a <= b

\* value * 1.2
Times1_2(a) == MulDiv(a, 12, 10)

\* a Line2D created by plot([], [])
EmptyLine == [xdata |-> <<>>, ydata |-> <<>>]

\* s[:n] of a Python sequence
Prefix(s, n) == SubSeq(s, 1, IF n < Len(s) THEN n ELSE Len(s))

\* frames=range(0, len(tempos), 10), line 159
frames == [i \in 1..((Len(tempos) + FrameStep - 1) \div FrameStep) |-> (i - 1) * FrameStep]

\* repeat=True, line 159
repeat_False == FALSE
repeat == TRUE

---------------------------------------------------------------------------
(* update, lines 125-154 *)

\* lines 136, 139, 142: set_data(tempos[:frame], series[:frame])
RevealedLine(series, fr) ==
    [xdata |-> Prefix(tempos, fr), ydata |-> Prefix(series, fr)]

\* lines 145-147: energias = [E_mec, K_c, U_g, U_el] at posicoes[frame]
Energias_Swapped(fr) ==
    LET r == calcular_Energias(posicoes[fr + 1])
    IN  <<r[1], r[3], r[2], r[4]>>
Energias(fr) ==
    LET r == calcular_Energias(posicoes[fr + 1])
    IN  <<r[1], r[2], r[3], r[4]>>

\* line 152: set_ylim(0, max(energias) * 1.2)
EnergiaYLim_Min(energias) == <<0, Times1_2(min(energias))>>
EnergiaYLim(energias) == <<0, Times1_2(max(energias))>>

---------------------------------------------------------------------------
(* The script *)

\* the positions calcular_Energias is applied to when taken on its own
Domain == 0..(y_max + Over)

NoLimits == [posicao |-> <<>>, velocidade |-> <<>>, deformacao |-> <<>>, energia |-> <<>>]

\* the state at line 80, before the first iteration of the loop
Init ==
    /\ pc = "precompute"
    /\ velocidades = <<>>
    /\ deformacoes = <<>>
    /\ linha_posicao = EmptyLine
    /\ linha_velocidade = EmptyLine
    /\ linha_deformacao = EmptyLine
    /\ barras = <<>>
    /\ ylims = NoLimits
    /\ frame_seq = 0
    /\ frame = 0 - 1
    /\ yArg = 0
    /\ ret = <<>>

\* one iteration of the loop of lines 80-83
Precompute ==
    /\ pc = "precompute"
    /\ Len(velocidades) < Len(posicoes)
    /\ LET y == posicoes[Len(velocidades) + 1]
           r == calcular_Energias(y)
       IN  /\ velocidades' = Append(velocidades, r[5])
           /\ deformacoes' = Append(deformacoes, r[6])
           /\ yArg' = y
           /\ ret' = r
    /\ UNCHANGED <<pc, linha_posicao, linha_velocidade, linha_deformacao,
                   barras, ylims, frame_seq, frame>>

\* lines 89-120 and 159-162: the figure, its fixed axes, the animation, the window
Setup ==
    /\ pc = "precompute"
    /\ Len(velocidades) = Len(posicoes)
    /\ linha_posicao' = EmptyLine
    /\ linha_velocidade' = EmptyLine
    /\ linha_deformacao' = EmptyLine
    /\ barras' = <<0, 0, 0, 0>>
    /\ ylims' = [posicao    |-> <<0, Times1_2(max(posicoes))>>,
                 velocidade |-> <<min(velocidades), Times1_2(max(velocidades))>>,
                 deformacao |-> <<0, Times1_2(max(deformacoes))>>,
                 energia    |-> <<>>]
    /\ frame_seq' = 0
    /\ pc' = "show"
    /\ UNCHANGED <<velocidades, deformacoes, frame, yArg, ret>>

\* the callback of lines 125-154 applied to frame fr
update(fr) ==
    /\ linha_posicao' = RevealedLine(posicoes, fr)
    /\ linha_velocidade' = RevealedLine(velocidades, fr)
    /\ linha_deformacao' = RevealedLine(deformacoes, fr)
    /\ yArg' = posicoes[fr + 1]
    /\ ret' = calcular_Energias(posicoes[fr + 1])
    /\ barras' = Energias(fr)
    /\ ylims' = [ylims EXCEPT !.energia = EnergiaYLim(Energias(fr))]
    /\ frame' = fr

\* the 50 ms timer fires: the next frame of the iterator over frames is passed to
\* update; an exhausted iterator is replaced by a fresh one when repeat is set
\* (the arguments of line 159; FuncAnimation's own code is matplotlib's)
Tick ==
    /\ pc = "show"
    /\ frame_seq < Len(frames) \/ repeat
    /\ LET i == IF frame_seq < Len(frames) THEN frame_seq ELSE 0
       IN  /\ update(frames[i + 1])
           /\ frame_seq' = i + 1
    /\ UNCHANGED <<pc, velocidades, deformacoes>>

\* the user closes the window: plt.show() returns and the script ends
Close ==
    /\ pc = "show"
    /\ pc' = "closed"
    /\ UNCHANGED <<velocidades, deformacoes, linha_posicao, linha_velocidade,
                   linha_deformacao, barras, ylims, frame_seq, frame, yArg, ret>>

Next == Precompute \/ Setup \/ Tick \/ Close

Spec == Init /\ [][Next]_vars

\* the interpreter runs the script on and the timer keeps firing
FairSpec == Spec /\ WF_vars(Precompute) /\ WF_vars(Setup) /\ WF_vars(Tick)

---------------------------------------------------------------------------
(* calcular_Energias on its own, over every position of Domain *)

InitEnergias ==
    /\ pc = "call"
    /\ yArg \in Domain
    /\ ret = <<>>
    /\ velocidades = <<>>
    /\ deformacoes = <<>>
    /\ linha_posicao = EmptyLine
    /\ linha_velocidade = EmptyLine
    /\ linha_deformacao = EmptyLine
    /\ barras = <<>>
    /\ ylims = NoLimits
    /\ frame_seq = 0
    /\ frame = 0 - 1

Return ==
    /\ pc = "call"
    /\ ret' = calcular_Energias(yArg)
    /\ pc' = "returned"
    /\ UNCHANGED <<yArg, velocidades, deformacoes, linha_posicao, linha_velocidade,
                   linha_deformacao, barras, ylims, frame_seq, frame>>

NextEnergias == Return

SpecEnergias == InitEnergias /\ [][NextEnergias]_vars

---------------------------------------------------------------------------
(* Properties *)

Abs(a) == IF a < 0 THEN 0 - a ELSE a

Returned == ret # <<>>

\* what the rounding of v, of 2*E/m, of K_c and of U_el can take from the sum
\* K_c + U_g + U_el when the velocity is v
RoundingTolerance(v) == (m * (2 * v + 1)) \div 200 + 3

\* the position after the snap of lines 46-47, for a position of Domain
Snapped == IF yArg <= atol THEN 0 ELSE yArg

\* C1: for every position y strictly between 0 and y_max the total mechanical
\* energy E_mec returned by calcular_Energias(y) equals m*g*y_max, up to rounding.
C1_EnergyConserved ==
    (Returned /\ 0 < yArg /\ yArg < y_max)
        => Abs(ret[1] - m * g * y_max) <= RoundingTolerance(ret[5])

\* Off the two seams of the branch tests (the snapped positions and x_max itself)
\* the returned total is m*g*y_max up to rounding: the violations of C1 are these
\* seams, not the rounding.
EnergyConservedOffSeams ==
    (Returned /\ atol < yArg /\ yArg < y_max /\ yArg # x_max)
        => Abs(ret[1] - m * g * y_max) <= RoundingTolerance(ret[5])

\* C2: the deformation returned for y is 0 on [x_max, y_max] and x_max - y of the
\* position passed in on [0, x_max), snapped positions included; it lies in
\* [0, x_max].
C2_Deformation ==
    Returned =>
        /\ yArg >= x_max => ret[6] = 0
        /\ yArg < x_max => ret[6] = x_max - yArg
        /\ 0 <= ret[6] /\ ret[6] <= x_max

\* a position snapped to zero whose deformation is still x_max - y
C2_Witness ==
    /\ Returned
    /\ 0 < yArg /\ yArg <= atol
    /\ ret[3] = 0
    /\ ret[6] = x_max - yArg /\ ret[6] < x_max

\* C3: the airborne and the spring-contact branch exclude each other; the
\* velocity is 0 within atol of zero, at y_max or above, and at x_max exactly;
\* at every other position it is the root of its branch's 2*E/m and positive.
C3_VelocityRegime ==
    Returned =>
        LET v == ret[5]
            air == x_max < Snapped /\ Snapped < y_max
            contact == 0 < Snapped /\ Snapped < x_max
            R_air == MulDiv(2 * (m * g * y_max - m * g * yArg), 100, m)
            R_contact == MulDiv(2 * (m * g * y_max - m * g * yArg - ret[4]), 100, m)
        IN  /\ ~(air /\ contact)
            /\ Regime(Snapped) = "airborne" <=> air
            /\ Regime(Snapped) = "contact" <=> contact
            /\ (yArg <= atol \/ yArg >= y_max \/ yArg = x_max) => v = 0
            /\ (atol < yArg /\ yArg < x_max) =>
                   v > 0 /\ v * v <= R_contact /\ R_contact < (v + 1) * (v + 1)
            /\ (x_max < yArg /\ yArg < y_max) =>
                   v > 0 /\ v * v <= R_air /\ R_air < (v + 1) * (v + 1)

\* the position x_max itself, between two moving neighbours, is at rest
C3_Witness ==
    /\ Returned
    /\ yArg = x_max
    /\ Regime(Snapped) = "rest"
    /\ ret[5] = 0

\* C4: k is 7063.2 N/m; at y = 1 the function returns U_g = 882.9, U_el = 0,
\* v = 0, K = 0, total 882.9; at y = 0 it returns deformation 0.5, U_el = 882.9,
\* U_g = 0, v = 0, K = 0, total 882.9 = m*g*y_max.
C4_TurningPoints ==
    /\ k = 70632
    /\ (Returned /\ yArg = y_max) => ret = <<882900000, 0, 882900000, 0, 0, 0>>
    /\ (Returned /\ yArg = 0) => ret = <<882900000, 0, 0, 882900000, 0, 5000>>
    /\ (Returned /\ yArg \in {0, y_max}) => ret[1] = m * g * y_max

\* the bottom turning point, all the energy in the spring
C4_Witness ==
    /\ Returned
    /\ yArg = 0
    /\ ret[4] = m * g * y_max
    /\ ret[6] = x_max

\* C5: on [0, y_max] the function returns six numbers, none of them NaN: the
\* airborne branch has E_t - U_g >= 0, the spring-contact branch has
\* E_t - U_g - U_el >= 0, and the kinetic energy is never negative.
C5_Total ==
    (Returned /\ yArg \in 0..y_max) =>
        /\ Len(ret) = 6
        /\ \A i \in 1..6 : ret[i] # NaN
        /\ Regime(Snapped) = "airborne" => E_t - ret[3] >= 0
        /\ Regime(Snapped) = "contact" => E_t - ret[3] - ret[4] >= 0
        /\ ret[2] >= 0

\* the lowest position of the spring-contact branch, where its radicand is least
C5_Witness ==
    /\ Returned
    /\ yArg = atol + 1
    /\ Regime(Snapped) = "contact"
    /\ E_t - ret[3] - ret[4] > 0
    /\ ret[5] > 0

\* the frame indices of one pass and the last of them
FrameSet == {(i - 1) * FrameStep : i \in 1..((Len(tempos) + FrameStep - 1) \div FrameStep)}
LastFrame == CHOOSE f \in FrameSet : \A h \in FrameSet : h <= f

\* C6: the animator processes the frame indices 0, 10, 20, ... below the number
\* of samples one at a time in increasing order, each a valid index; after the
\* last it restarts at 0; while the window stays open and the timer fires, every
\* frame index is processed again and again.
C6_AnimationLoop ==
    /\ [](frame >= 0 => frame \in FrameSet /\ frame < Len(posicoes))
    /\ [][frame' # frame =>
            \/ frame < 0 /\ frame' = 0
            \/ frame >= 0 /\ frame # LastFrame /\ frame' = frame + FrameStep
            \/ frame = LastFrame /\ frame' = 0]_vars
    /\ \A f \in FrameSet : []<>(pc = "closed" \/ frame = f)

\* the last frame of a pass has been drawn and the window is still open
C6_Witness ==
    /\ pc = "show"
    /\ frame = LastFrame
    /\ frame_seq = Len(frames)
    /\ LastFrame = 120

\* the three lines of the figure with the series each one draws
Lines ==
    {<<linha_posicao, posicoes>>, <<linha_velocidade, velocidades>>,
     <<linha_deformacao, deformacoes>>}

\* C7: after update(frame) the position, velocity and deformation lines all show
\* the samples of their series from index 0 up to index frame, frame included, so
\* the last point drawn is the sample the energy bars are computed from.
C7_CumulativeReveal ==
    frame >= 0 =>
        /\ \A l \in Lines :
              /\ l[1].xdata = SubSeq(tempos, 1, frame + 1)
              /\ l[1].ydata = SubSeq(l[2], 1, frame + 1)
        /\ Len(linha_posicao.ydata) = frame + 1
        /\ linha_posicao.ydata[Len(linha_posicao.ydata)] = yArg

\* C8: after update(frame) the four bars are, in order, the total, kinetic,
\* gravitational and elastic energy of calcular_Energias at posicoes[frame], and
\* the energy axis runs from 0 to 1.2 times the largest of the four.
C8_EnergyBars ==
    frame >= 0 =>
        LET r == calcular_Energias(posicoes[frame + 1])
            top == CHOOSE a \in {r[1], r[2], r[3], r[4]} :
                       \A b \in {r[1], r[2], r[3], r[4]} : b <= a
        IN  /\ barras = <<r[1], r[2], r[3], r[4]>>
            /\ barras[2] = K_cOf(r[5])
            /\ barras[3] = m * g * Snap(posicoes[frame + 1])
            /\ ylims.energia = <<0, top + top \div 5>>

\* a frame on the spring, where kinetic, gravitational and elastic are all there
C8_Witness ==
    /\ pc = "show"
    /\ frame = 60
    /\ barras[2] > 0 /\ barras[3] > 0 /\ barras[4] > 0
    /\ ylims.energia[2] > barras[1]

\* C9: the trajectory has exactly ceil(2*pi/0.05) samples at times 0, 0.05, ...,
\* all below 2*pi; the positions start at y_max, are lowest, zero within the
\* program's own tolerance atol, at the midpoint sample, are back at y_max within
\* atol at the last sample, and all lie in [0, y_max].
C9_Trajectory ==
    LET n == Len(tempos)
        mid == n \div 2 + 1
    IN  /\ n * dt >= t_total /\ (n - 1) * dt < t_total
        /\ \A i \in 1..n : tempos[i] = (i - 1) * dt /\ tempos[i] < t_total
        /\ Len(posicoes) = n
        /\ posicoes[1] = y_max
        /\ \A i \in 1..n : posicoes[mid] <= posicoes[i]
        /\ \A i \in 1..n : i # mid => posicoes[mid] < posicoes[i]
        /\ Snap(posicoes[mid]) = 0
        /\ Abs(tempos[mid] - pi) < dt
        /\ y_max - posicoes[n] <= atol
        /\ t_total - tempos[n] <= dt
        /\ \A i \in 1..n : 0 <= posicoes[i] /\ posicoes[i] <= y_max
        /\ Len(velocidades) <= n

\* the loop of lines 80-83 has gone through the whole trajectory, last sample included
C9_Witness ==
    /\ pc = "precompute"
    /\ Len(velocidades) = Len(tempos)
    /\ Len(tempos) = 126
    /\ yArg = posicoes[Len(posicoes)]
    /\ yArg > y_max - atol

\* C10: after any sequence of updates the four bars are non-negative, the total
\* bar is the sum of the other three and the tallest, every bar is at most the
\* upper limit of the energy axis, and after the first update that limit is
\* positive.
C10_Display ==
    /\ barras # <<>> =>
          /\ \A i \in 1..4 : barras[i] >= 0
          /\ barras[1] = barras[2] + barras[3] + barras[4]
          /\ \A i \in 1..4 : barras[i] <= barras[1]
    /\ frame >= 0 =>
          /\ ylims.energia # <<>>
          /\ ylims.energia[1] = 0
          /\ ylims.energia[2] > 0
          /\ \A i \in 1..4 : barras[i] <= ylims.energia[2]

\* the window was closed on a drawn frame: bars and axis stay as update left them
C10_Witness ==
    /\ pc = "closed"
    /\ frame >= 0
    /\ barras[1] > 0
    /\ ylims.energia[2] >= barras[1]

=============================================================================
